---------------------------- MODULE Spec2Model ----------------------------
(***************************************************************************)
(* The per-page extraction pipeline and its result cache                   *)
(* (backend/main.py, backend/services/pdf_service.py, ocr_service.py).     *)
(*                                                                         *)
(* The upload directory is modelled by two maps: pdf (the <doc_id>.pdf     *)
(* files, by page count) and cache (the <doc_id>_results.json files).      *)
(* Every request runs in one of the handler slots of Reqs; a handler       *)
(* advances one step per suspension point of its coroutine (an awaited     *)
(* aiofiles call).  The OpenAI client call is synchronous, so rendering    *)
(* plus extraction of one page is a single step.                           *)
(*                                                                         *)
(* Two variables are bookkeeping, not program state: writers[h] is the set   *)
(* of slots that changed the cache file of h's document while h's request  *)
(* was in flight, and received counts the requests.                        *)
(*                                                                         *)
(* Conventions: Python None is the empty tuple, an optional value x is     *)
(* <<...>>; a string that is trimmed is a sequence of one-character        *)
(* strings; a confidence is an integer number of tenths (0.8 is 8).        *)
(***************************************************************************)
EXTENDS Integers, Sequences, FiniteSets, TLC

\* Largest page count of an uploaded PDF.
MaxPages == 2

\* Number of requests the model follows from the start of the server.
MaxRequests == 4

\* Longest list of fields handed to validate_extraction.
MaxFields == 2

\* Number of times validate_extraction is applied to its own result.
MaxCalls == 2

Docs == {"d1"}
Reqs == {"r1", "r2"}

VARIABLES pdf, cache, pc, req, ext, page_data, pages_data, doc_data, resp, writers, received

\* OCRService.validate_extraction, which the pipeline never calls, is followed
\* on its own: extracted is the argument of its latest call, validated_fields
\* the list that call returned, calls the number of calls made.
VARIABLES extracted, validated_fields, calls

pipeline == <<pdf, cache, pc, req, ext, page_data, pages_data, doc_data, resp, writers, received>>

validation == <<extracted, validated_fields, calls>>

vars == <<pipeline, validation>>

None == <<>>

-----------------------------------------------------------------------------
(* models.py *)

ConfidenceMin == 0
ConfidenceMax == 10

ExtractedField(field_name, value, confidence, page_number) ==
    [field_name |-> field_name, value |-> value, confidence |-> confidence,
     bounding_box |-> None, page_number |-> page_number]

PageData(page_number, extracted_fields, page_image_url, text_content) ==
    [page_number |-> page_number, extracted_fields |-> extracted_fields,
     page_image_url |-> page_image_url, text_content |-> text_content,
     processing_time |-> None]

\* PageData.dict(): the JSON object written for a page.
Dict(page) ==
    [page_number |-> page.page_number,
     extracted_fields |->
        [i \in 1..Len(page.extracted_fields) |->
            [field_name |-> page.extracted_fields[i].field_name,
             value |-> page.extracted_fields[i].value,
             confidence |-> page.extracted_fields[i].confidence,
             bounding_box |-> page.extracted_fields[i].bounding_box,
             page_number |-> page.extracted_fields[i].page_number]],
     page_image_url |-> page.page_image_url,
     text_content |-> page.text_content,
     processing_time |-> page.processing_time]

-----------------------------------------------------------------------------
(* ocr_service.py *)

DefaultConfidence == 8

\* str.strip() on a sequence of characters.
RECURSIVE LStrip(_)
LStrip(s) == IF s # <<>> /\ Head(s) = " " THEN LStrip(Tail(s)) ELSE s

RECURSIVE RStrip(_)
RStrip(s) ==
    IF s # <<>> /\ s[Len(s)] = " " THEN RStrip(SubSeq(s, 1, Len(s) - 1)) ELSE s

Strip(s) == RStrip(LStrip(s))

\* What the external capability can answer: the call raises, the content is
\* not JSON (or not a JSON object), or it is an object whose items map a
\* field name to a {value, confidence} dict (keys optional) or to a scalar.
ExtResponses ==
    { [kind |-> "error", items |-> <<>>],
      [kind |-> "unparseable", items |-> <<>>],
      [kind |-> "object", items |-> <<>>],
      [kind |-> "object", items |->
         << [field_name |-> "date", shape |-> "dict",
             value |-> << <<"I", "N", "V">> >>, confidence |-> <<9>>] >>],
      [kind |-> "object", items |->
         << [field_name |-> "date", shape |-> "scalar",
             value |-> << <<" ">> >>, confidence |-> None] >>],
      [kind |-> "object", items |->
         << [field_name |-> "date", shape |-> "dict",
             value |-> << <<" ">> >>, confidence |-> None] >>],
      [kind |-> "object", items |->
         << [field_name |-> "date", shape |-> "dict",
             value |-> << <<"I", "N", "V">> >>, confidence |-> <<15>>] >>] }

\* field_data.get('value', '') / str(field_data)
ItemValue(item) ==
    IF item.shape = "dict"
    THEN (IF item.value = None THEN <<>> ELSE item.value[1])
    ELSE item.value[1]

\* field_data.get('confidence', 0.8) / 0.8
ItemConfidence(item) ==
    IF item.shape = "dict"
    THEN (IF item.confidence = None THEN DefaultConfidence ELSE item.confidence[1])
    ELSE DefaultConfidence

\* ExtractedField(...) raises a validation error outside Field(ge=0.0, le=1.0).
ValidConfidence(c) == ConfidenceMin <= c /\ c <= ConfidenceMax

\* OCRService.extract_fields: what raises inside its try block (the call,
\* json.loads, .items(), the ExtractedField constructor).
ExtractionFails(response) ==
    \/ response.kind # "object"
    \/ \E i \in 1..Len(response.items) :
          ~ValidConfidence(ItemConfidence(response.items[i]))

\* Mutant: the except branch reports the failure as a field instead of
\* returning the empty list.
extract_fields_reports_error(response, page_number) ==
    IF ExtractionFails(response)
    THEN << ExtractedField("error", <<>>, 0, page_number) >>
    ELSE [i \in 1..Len(response.items) |->
            ExtractedField(response.items[i].field_name,
                           ItemValue(response.items[i]),
                           ItemConfidence(response.items[i]),
                           page_number)]

\* OCRService.extract_fields: any exception degrades to the empty list.
extract_fields(response, page_number) ==
    IF ExtractionFails(response) THEN <<>>
    ELSE [i \in 1..Len(response.items) |->
            ExtractedField(response.items[i].field_name,
                           ItemValue(response.items[i]),
                           ItemConfidence(response.items[i]),
                           page_number)]

\* min(confidence, 0.5) caps the confidence of a one-character value.
LowConfidence == 5

Min(a, b) == IF a < b THEN a ELSE b

\* Mutant: only leading whitespace is removed.
CleanedValueLeft(field) ==
    IF field.value # <<>> THEN LStrip(field.value) ELSE <<>>

\* validate_extraction: field.value.strip() if field.value else ""
CleanedValue(field) ==
    IF field.value # <<>> THEN Strip(field.value) ELSE <<>>

\* Mutant: the confidence of a short value is halved instead of capped.
AdjustedConfidenceHalved(field) ==
    IF CleanedValue(field) = <<>> THEN 0
    ELSE IF Len(CleanedValue(field)) < 2 THEN field.confidence \div 2
    ELSE field.confidence

\* validate_extraction: "Adjust confidence based on value quality".
AdjustedConfidence(field) ==
    IF CleanedValue(field) = <<>> THEN 0
    ELSE IF Len(CleanedValue(field)) < 2 THEN Min(field.confidence, LowConfidence)
    ELSE field.confidence

\* OCRService.validate_extraction: one new ExtractedField per field, in order.
validate_extraction(extracted_fields) ==
    [i \in 1..Len(extracted_fields) |->
        ExtractedField(extracted_fields[i].field_name,
                       CleanedValue(extracted_fields[i]),
                       AdjustedConfidence(extracted_fields[i]),
                       extracted_fields[i].page_number)]

-----------------------------------------------------------------------------
(* Files of the upload directory *)

\* <doc_id>_results.json: missing, opened for writing and not yet written,
\* overlaid by two writers, or a JSON document.
Absent == [kind |-> "absent"]
Empty == [kind |-> "empty"]
Corrupt == [kind |-> "corrupt"]

IsJson(file) == file.kind = "json"

\* A handler that opened the file with mode 'w' writes its text at offset 0
\* when it closes it, whatever the file holds by then.  Over a longer text
\* that another handler wrote meanwhile, the tail of that text stays and the
\* file is not JSON any more.
Overlaid(file) == file.kind # "empty"

-----------------------------------------------------------------------------
(* pdf_service.py *)

PdfPageUrl(d, n) == <<"/uploads/", d, ".pdf#page=", n>>
PngPageUrl(d, n) == <<"/uploads/", d, "_page_", n, ".png">>
PageText(d, n) == <<"text", d, n>>

\* Whether the call of the external capability ended in the except branch.
ExtOutcome(response) == IF ExtractionFails(response) THEN "failed" ELSE "ok"

\* PDFService.prepare_pages: one placeholder per page of the PDF.
prepare_pages(d, n_pages) ==
    [i \in 1..n_pages |-> PageData(i, <<>>, PdfPageUrl(d, i), None)]

\* Mutant: the lower bound of the range check is missing.
InvalidPageNoLowerBound(page_num, n_pages) == page_num > n_pages

\* PDFService.process_page: the range check on the requested page number.
InvalidPage(page_num, n_pages) == page_num < 1 \/ page_num > n_pages

\* PDFService.process_page: the PageData of a valid page.
process_page(d, page_num, response) ==
    PageData(page_num, extract_fields(response, page_num),
             PdfPageUrl(d, page_num), PageText(d, page_num))

\* Mutant: the page is numbered by the loop index, from 0.
process_pdf_page_from_zero(d, page_num, response) ==
    PageData(page_num - 1, extract_fields(response, page_num),
             PngPageUrl(d, page_num), PageText(d, page_num))

\* PDFService.process_pdf: the PageData of one iteration of the loop.
process_pdf_page(d, page_num, response) ==
    PageData(page_num, extract_fields(response, page_num),
             PngPageUrl(d, page_num), PageText(d, page_num))

\* PDFService._save_results: the JSON document written to the cache file.
save_results(d, pages, key_fields) ==
    [kind |-> "json", doc_id |-> d, filename |-> <<d, ".pdf">>,
     total_pages |-> Len(pages), key_fields |-> key_fields,
     pages |-> [i \in 1..Len(pages) |-> Dict(pages[i])],
     processing_status |-> "completed", created_at |-> "now"]

-----------------------------------------------------------------------------
(* main.py *)

\* raise HTTPException(status_code=404, detail=...) inside the handler's try
\* block is caught by its "except Exception" and raised again as a 500 whose
\* detail is str(e).
HTTPException(status_code, detail) ==
    [status |-> status_code, detail |-> detail, body |-> None]

Str404(detail) == <<"404: ", detail>>

Wrap500(text) == HTTPException(500, text)

Ok(body) == [status |-> 200, detail |-> None, body |-> body]

\* Mutant: total_pages is taken from the still empty pages array.
NewDocDataEmptyTotal(d, page) ==
    [kind |-> "json", doc_id |-> d, filename |-> <<d, ".pdf">>,
     total_pages |-> 0, key_fields |-> <<>>, pages |-> <<>>]

\* extract_fields_for_page: the document built when no cache file exists.
NewDocData(d, page) ==
    [kind |-> "json", doc_id |-> d, filename |-> <<d, ".pdf">>,
     total_pages |-> page.page_number, key_fields |-> <<>>, pages |-> <<>>]

\* Mutant: the placeholder is numbered from 0.
PlaceholderFromZero(pages) ==
    [page_number |-> Len(pages), extracted_fields |-> <<>>,
     page_image_url |-> None, text_content |-> None, processing_time |-> None]

\* extract_fields_for_page: the placeholder appended by the while loop.
Placeholder(pages) ==
    [page_number |-> Len(pages) + 1, extracted_fields |-> <<>>,
     page_image_url |-> None, text_content |-> None, processing_time |-> None]

\* extract_fields_for_page: "Ensure pages array length".
RECURSIVE EnsurePages(_, _)
EnsurePages(pages, page_num) ==
    IF Len(pages) < page_num
    THEN EnsurePages(Append(pages, Placeholder(pages)), page_num)
    ELSE pages

\* Mutant: the pages array is rebuilt from placeholders around the new page.
UpdatePageRebuilds(doc, page_num, page) ==
    [doc EXCEPT !.pages =
        [EnsurePages(<<>>, Len(EnsurePages(doc.pages, page_num)))
            EXCEPT ![page_num] = Dict(page)]]

\* extract_fields_for_page: doc_data["pages"][page_num - 1] = page_data.dict()
\* after the pages array was extended.
UpdatePage(doc, page_num, page) ==
    [doc EXCEPT !.pages =
        [EnsurePages(doc.pages, page_num) EXCEPT ![page_num] = Dict(page)]]

-----------------------------------------------------------------------------
(* State *)

NoReq == [op |-> "none", doc |-> "d1", page_num |-> 0, n_pages |-> 0,
          key_fields |-> <<>>]
NoPage == PageData(0, <<>>, None, None)
NoResp == [status |-> 0, detail |-> None, body |-> None]

\* The upload directory is empty and no request was received.
InitPipeline ==
    /\ pdf = [d \in Docs |-> 0]
    /\ cache = [d \in Docs |-> Absent]
    /\ pc = [h \in Reqs |-> "idle"]
    /\ req = [h \in Reqs |-> NoReq]
    /\ ext = [h \in Reqs |-> "none"]
    /\ page_data = [h \in Reqs |-> NoPage]
    /\ pages_data = [h \in Reqs |-> <<>>]
    /\ doc_data = [h \in Reqs |-> Absent]
    /\ resp = [h \in Reqs |-> NoResp]
    /\ writers = [h \in Reqs |-> {}]
    /\ received = 0

Init ==
    /\ InitPipeline
    /\ extracted = <<>>
    /\ validated_fields = <<>>
    /\ calls = 0

InFlight(h) == pc[h] \notin {"idle", "done"}

\* The request of slot h is received: its locals are fresh.  received counts
\* the requests, so that a run of the model ends.
Receive(h, r) ==
    /\ ~InFlight(h)
    /\ received < MaxRequests
    /\ received' = received + 1
    /\ pc' = [pc EXCEPT ![h] = "recv"]
    /\ req' = [req EXCEPT ![h] = r]
    /\ ext' = [ext EXCEPT ![h] = "none"]
    /\ resp' = [resp EXCEPT ![h] = NoResp]
    /\ writers' = [writers EXCEPT ![h] = {}]
    /\ UNCHANGED <<validation, pdf, cache, page_data, pages_data, doc_data>>

\* The handler of slot h returns or raises: its locals are dropped.
Finish(h, response) ==
    /\ pc' = [pc EXCEPT ![h] = "done"]
    /\ resp' = [resp EXCEPT ![h] = response]
    /\ page_data' = [page_data EXCEPT ![h] = NoPage]
    /\ pages_data' = [pages_data EXCEPT ![h] = <<>>]
    /\ doc_data' = [doc_data EXCEPT ![h] = Absent]

\* Slot h changes the cache file of d: every other request in flight on d
\* has had a writer beside it.
NoteWriter(h, d) ==
    writers' = [g \in Reqs |->
                  IF g # h /\ InFlight(g) /\ req[g].doc = d
                  THEN writers[g] \cup {h} ELSE writers[g]]

-----------------------------------------------------------------------------
(* POST /upload-pdf (main.py upload_pdf, PDFService.prepare_pages) *)

\* The upload of d is not answered yet.
Uploading(d) ==
    \E g \in Reqs : InFlight(g) /\ req[g].op = "upload" /\ req[g].doc = d

\* A new upload: uuid4 names a document that has no file and that no request
\* in flight names.
StartUpload(h) ==
    \E d \in Docs, n \in 1..MaxPages :
        /\ pdf[d] = 0
        /\ \A g \in Reqs : ~(InFlight(g) /\ req[g].doc = d)
        /\ Receive(h, [op |-> "upload", doc |-> d, page_num |-> 0,
                       n_pages |-> n, key_fields |-> <<>>])

\* The uploaded bytes are written to <doc_id>.pdf.
UploadSave(h) ==
    /\ pc[h] = "recv" /\ req[h].op = "upload"
    /\ pdf' = [pdf EXCEPT ![req[h].doc] = req[h].n_pages]
    /\ pc' = [pc EXCEPT ![h] = "prepare"]
    /\ UNCHANGED <<validation, received,
                   cache, req, ext, page_data, pages_data, doc_data, resp, writers>>

\* prepare_pages builds the placeholders and calls _save_results.
PreparePages(h) ==
    /\ pc[h] = "prepare"
    /\ pages_data' = [pages_data EXCEPT ![h] = prepare_pages(req[h].doc, pdf[req[h].doc])]
    /\ pc' = [pc EXCEPT ![h] = "save_open"]
    /\ UNCHANGED <<validation, received, pdf, cache, req, ext, page_data, doc_data, resp, writers>>

\* What upload_pdf / process_pdf hand back once _save_results returned.
SaveResponse(h) ==
    IF req[h].op = "upload"
    THEN Ok([total_pages |-> Len(pages_data[h]), key_fields |-> <<>>,
             pages |-> pages_data[h]])
    ELSE Ok([pages |-> pages_data[h]])

\* _save_results opens the cache file with mode 'w', which truncates it.
SaveOpen(h) ==
    /\ pc[h] = "save_open"
    /\ cache' = [cache EXCEPT ![req[h].doc] = Empty]
    /\ NoteWriter(h, req[h].doc)
    /\ pc' = [pc EXCEPT ![h] = "save_write"]
    /\ UNCHANGED <<validation, received, pdf, req, ext, page_data, pages_data, doc_data, resp>>

\* The open fails: _save_results prints a warning and returns normally.
SaveOpenFails(h) ==
    /\ pc[h] = "save_open"
    /\ Finish(h, SaveResponse(h))
    /\ UNCHANGED <<validation, received, pdf, cache, req, ext, writers>>

\* _save_results writes the JSON text and closes the file.
SaveWrite(h) ==
    /\ pc[h] = "save_write"
    /\ cache' = [cache EXCEPT ![req[h].doc] =
                    save_results(req[h].doc, pages_data[h], req[h].key_fields)]
    /\ NoteWriter(h, req[h].doc)
    /\ Finish(h, SaveResponse(h))
    /\ UNCHANGED <<validation, received, pdf, req, ext>>

\* The write fails: the warning again, and the file stays as it is.
SaveWriteFails(h) ==
    /\ pc[h] = "save_write"
    /\ Finish(h, SaveResponse(h))
    /\ UNCHANGED <<validation, received, pdf, cache, req, ext, writers>>

-----------------------------------------------------------------------------
(* PDFService.process_pdf(file_path, key_fields) *)

KeyFieldLists == { <<"date">> }

StartProcessPdf(h) ==
    \E d \in Docs, kf \in KeyFieldLists :
        Receive(h, [op |-> "process_pdf", doc |-> d, page_num |-> 0,
                    n_pages |-> 0, key_fields |-> kf])

\* fitz.open raises on a missing file.
ProcessPdfOpen(h) ==
    /\ pc[h] = "recv" /\ req[h].op = "process_pdf"
    /\ IF pdf[req[h].doc] = 0
       THEN /\ Finish(h, Wrap500(<<"Error processing PDF: ", "no such file">>))
            /\ UNCHANGED <<validation, received, pdf, cache, req, ext, writers>>
       ELSE /\ pc' = [pc EXCEPT ![h] = "loop"]
            /\ UNCHANGED <<validation, received, pdf, cache, req, ext, page_data, pages_data,
                           doc_data, resp, writers>>

\* One iteration of the loop over the pages.
ProcessPdfPage(h) ==
    /\ pc[h] = "loop"
    /\ Len(pages_data[h]) < pdf[req[h].doc]
    /\ \E response \in ExtResponses :
          /\ pages_data' = [pages_data EXCEPT ![h] =
                Append(@, process_pdf_page(req[h].doc, Len(@) + 1, response))]
          /\ ext' = [ext EXCEPT ![h] = ExtOutcome(response)]
    /\ UNCHANGED <<validation, received, pdf, cache, pc, req, page_data, doc_data, resp, writers>>

\* The loop is over: _save_results is called.
ProcessPdfSave(h) ==
    /\ pc[h] = "loop"
    /\ Len(pages_data[h]) = pdf[req[h].doc]
    /\ pc' = [pc EXCEPT ![h] = "save_open"]
    /\ UNCHANGED <<validation, received,
                   pdf, cache, req, ext, page_data, pages_data, doc_data, resp, writers>>

-----------------------------------------------------------------------------
(* POST /document/{doc_id}/page/{page_num}/extract (extract_fields_for_page) *)

PageNums == 0..(MaxPages + 1)

\* A request names a document that does not exist or one whose upload was
\* answered: only that answer tells the identifier.
StartExtract(h) ==
    \E d \in Docs, n \in PageNums :
        /\ ~Uploading(d)
        /\ Receive(h, [op |-> "extract", doc |-> d, page_num |-> n,
                    n_pages |-> 0, key_fields |-> <<"date">>])

\* Up to the first suspension: the file check, process_page with its call of
\* the external capability, and the check for the cache file.
ExtractProcessPage(h) ==
    /\ pc[h] = "recv" /\ req[h].op = "extract"
    /\ LET d == req[h].doc
           n == req[h].page_num
       IN IF pdf[d] = 0
          THEN /\ Finish(h, Wrap500(Str404("Document not found")))
               /\ UNCHANGED <<validation, received, pdf, cache, req, ext, writers>>
          ELSE IF InvalidPage(n, pdf[d])
          THEN /\ Finish(h, Wrap500(<<"Error processing page: ", "Invalid page number">>))
               /\ UNCHANGED <<validation, received, pdf, cache, req, ext, writers>>
          ELSE \E response \in ExtResponses :
                 /\ ext' = [ext EXCEPT ![h] = ExtOutcome(response)]
                 /\ page_data' = [page_data EXCEPT ![h] = process_page(d, n, response)]
                 /\ IF cache[d] = Absent
                    THEN /\ doc_data' = [doc_data EXCEPT ![h] =
                                NewDocData(d, process_page(d, n, response))]
                         /\ pc' = [pc EXCEPT ![h] = "open"]
                    ELSE /\ doc_data' = doc_data
                         /\ pc' = [pc EXCEPT ![h] = "read"]
                 /\ UNCHANGED <<validation, received, pdf, cache, req, pages_data, resp, writers>>

\* The cache file is read and parsed.
ExtractRead(h) ==
    /\ pc[h] = "read" /\ req[h].op = "extract"
    /\ IF IsJson(cache[req[h].doc])
       THEN /\ doc_data' = [doc_data EXCEPT ![h] = cache[req[h].doc]]
            /\ pc' = [pc EXCEPT ![h] = "open"]
            /\ UNCHANGED <<validation, received,
                           pdf, cache, req, ext, page_data, pages_data, resp, writers>>
       ELSE /\ Finish(h, Wrap500(<<"JSONDecodeError">>))
            /\ UNCHANGED <<validation, received, pdf, cache, req, ext, writers>>

\* The cache file is opened with mode 'w', which truncates it.
ExtractOpen(h) ==
    /\ pc[h] = "open"
    /\ cache' = [cache EXCEPT ![req[h].doc] = Empty]
    /\ NoteWriter(h, req[h].doc)
    /\ pc' = [pc EXCEPT ![h] = "write"]
    /\ UNCHANGED <<validation, received, pdf, req, ext, page_data, pages_data, doc_data, resp>>

\* The updated document is written and the page is returned.  (doc_data is
\* private to the handler: the update of its pages is applied here.)
ExtractWrite(h) ==
    /\ pc[h] = "write"
    /\ cache' = [cache EXCEPT ![req[h].doc] =
                    UpdatePage(doc_data[h], req[h].page_num, page_data[h])]
    /\ NoteWriter(h, req[h].doc)
    /\ Finish(h, Ok(page_data[h]))
    /\ UNCHANGED <<validation, received, pdf, req, ext>>

\* The same, with a text shorter than the one another handler wrote meanwhile.
ExtractWriteShort(h) ==
    /\ pc[h] = "write"
    /\ Overlaid(cache[req[h].doc])
    /\ cache' = [cache EXCEPT ![req[h].doc] = Corrupt]
    /\ NoteWriter(h, req[h].doc)
    /\ Finish(h, Ok(page_data[h]))
    /\ UNCHANGED <<validation, received, pdf, req, ext>>

-----------------------------------------------------------------------------
(* GET /document/{doc_id} and GET /document/{doc_id}/page/{page_num} *)

StartGet(h) ==
    \E d \in Docs, op \in {"get_document", "get_page"}, n \in PageNums :
        /\ op = "get_document" => n = 0
        /\ ~Uploading(d)
        /\ Receive(h, [op |-> op, doc |-> d, page_num |-> n,
                       n_pages |-> 0, key_fields |-> <<>>])

\* The two os.path.exists checks.
GetCheck(h) ==
    /\ pc[h] = "recv" /\ req[h].op \in {"get_document", "get_page"}
    /\ IF pdf[req[h].doc] = 0
       THEN /\ Finish(h, Wrap500(Str404("Document not found")))
            /\ UNCHANGED <<validation, received, pdf, cache, req, ext, writers>>
       ELSE IF cache[req[h].doc] = Absent
       THEN /\ Finish(h, Wrap500(Str404("Document not processed")))
            /\ UNCHANGED <<validation, received, pdf, cache, req, ext, writers>>
       ELSE /\ pc' = [pc EXCEPT ![h] = "read"]
            /\ UNCHANGED <<validation, received, pdf, cache, req, ext, page_data, pages_data,
                           doc_data, resp, writers>>

\* The cache file is read, parsed and answered from.
GetRead(h) ==
    /\ pc[h] = "read" /\ req[h].op \in {"get_document", "get_page"}
    /\ LET file == cache[req[h].doc]
           n == req[h].page_num
       IN Finish(h,
            IF ~IsJson(file) THEN Wrap500(<<"JSONDecodeError">>)
            ELSE IF req[h].op = "get_document" THEN Ok(file)
            ELSE IF n < 1 \/ n > Len(file.pages) THEN Wrap500(Str404("Page not found"))
            ELSE Ok(file.pages[n]))
    /\ UNCHANGED <<validation, received, pdf, cache, req, ext, writers>>

-----------------------------------------------------------------------------

\* The endpoints of the application, on a disk that takes every write.
Handler(h) ==
    \/ StartUpload(h)
    \/ UploadSave(h)
    \/ PreparePages(h)
    \/ SaveOpen(h)
    \/ SaveWrite(h)
    \/ StartExtract(h)
    \/ ExtractProcessPage(h)
    \/ ExtractRead(h)
    \/ ExtractOpen(h)
    \/ ExtractWrite(h)
    \/ StartGet(h)
    \/ GetCheck(h)
    \/ GetRead(h)

\* The failures of the disk that _save_results catches.
SaveFails(h) ==
    \/ SaveOpenFails(h)
    \/ SaveWriteFails(h)

\* Whole-document processing, which no endpoint calls.
Service(h) ==
    \/ StartProcessPdf(h)
    \/ ProcessPdfOpen(h)
    \/ ProcessPdfPage(h)
    \/ ProcessPdfSave(h)

\* One request at a time, over every operation.
Next == Handler("r1") \/ SaveFails("r1") \/ Service("r1")

Spec == Init /\ [][Next]_vars

\* The application serving its requests concurrently.
NextConcurrent == \E h \in Reqs : Handler(h) \/ ExtractWriteShort(h)

SpecConcurrent == Init /\ [][NextConcurrent]_vars

-----------------------------------------------------------------------------
(* OCRService.validate_extraction on its own *)

\* The ExtractedField objects the lists are drawn from: values with and
\* without surrounding whitespace, of length 0, 1 and 2 once trimmed.
FieldValues ==
    { <<>>, <<" ">>, <<"a">>, <<" ", "a", " ">>, <<" ", "a", "b">> }

FieldConfidences == {0, 3, 8}

Fields ==
    { [field_name |-> k.field_name, value |-> v, confidence |-> c,
       bounding_box |-> k.bounding_box, page_number |-> k.page_number] :
         k \in { [field_name |-> "date", page_number |-> 1, bounding_box |-> None],
                 [field_name |-> "total", page_number |-> 2,
                  bounding_box |-> << <<0, 0, 1, 1>> >>] },
         v \in FieldValues, c \in FieldConfidences }

FieldLists == UNION { [1..n -> Fields] : n \in 0..MaxFields }

InitValidate ==
    /\ InitPipeline
    /\ extracted \in FieldLists
    /\ validated_fields = <<>>
    /\ calls = 0

\* validate_extraction(extracted_fields)
ValidateExtraction ==
    /\ calls = 0
    /\ validated_fields' = validate_extraction(extracted)
    /\ calls' = 1
    /\ UNCHANGED <<pipeline, extracted>>

\* validate_extraction applied to the list it returned.
ValidateAgain ==
    /\ calls > 0 /\ calls < MaxCalls
    /\ extracted' = validated_fields
    /\ validated_fields' = validate_extraction(validated_fields)
    /\ calls' = calls + 1
    /\ UNCHANGED pipeline

NextValidate == ValidateExtraction \/ ValidateAgain

SpecValidate == InitValidate /\ [][NextValidate]_vars

-----------------------------------------------------------------------------
(* Properties *)

InvalidPageDetail == <<"Error processing page: ", "Invalid page number">>

\* A page as prepare_pages or the extension loop leaves it.
IsPlaceholderPage(page) ==
    page.extracted_fields = <<>> /\ page.text_content = None

PlaceholderOnly(doc) ==
    IsJson(doc) /\ \A i \in 1..Len(doc.pages) : IsPlaceholderPage(doc.pages[i])

\* The record was built by an update_page, not written by _save_results.
BuiltByUpdate(doc) == IsJson(doc) /\ "created_at" \notin DOMAIN doc

\* Slot h completes the write of an update_page no other handler wrote beside.
UpdateCompletes(h) ==
    /\ pc[h] = "write" /\ pc'[h] = "done"
    /\ writers[h] = {}

ExtractDone(h) ==
    pc[h] = "done" /\ req[h].op = "extract" /\ resp[h].status = 200

\* C1: when two single-page extractions of different pages of one document
\* ran concurrently and both have completed, the stored record holds the page
\* each of them wrote.
C1_NoLostUpdate ==
    \A g, h \in Reqs :
        ( /\ g # h
          /\ ExtractDone(g) /\ ExtractDone(h)
          /\ req[g].doc = req[h].doc
          /\ req[g].page_num # req[h].page_num
          /\ g \in writers[h] )
        => LET doc == cache[req[h].doc]
           IN /\ IsJson(doc)
              /\ req[g].page_num <= Len(doc.pages)
              /\ req[h].page_num <= Len(doc.pages)
              /\ doc.pages[req[g].page_num] = Dict(resp[g].body)
              /\ doc.pages[req[h].page_num] = Dict(resp[h].body)

\* C2: when an update_page for page n completes with no other writer beside
\* it, the stored record holds the given page at n and every page the record
\* had before, other than n, as it was.
C2_UpdatePageFrame ==
    [][\A h \in Reqs :
         UpdateCompletes(h) =>
            LET new == cache'[req[h].doc]
                n == req[h].page_num
            IN /\ IsJson(new)
               /\ n <= Len(new.pages)
               /\ new.pages[n] = Dict(page_data[h])
               /\ \A i \in 1..Len(doc_data[h].pages) :
                     i # n => /\ i <= Len(new.pages)
                              /\ new.pages[i] = doc_data[h].pages[i]]_vars

\* An update_page has completed on a record that holds another, extracted, page.
C2_Witness ==
    \E h \in Reqs :
        /\ ExtractDone(h)
        /\ IsJson(cache[req[h].doc])
        /\ req[h].page_num <= Len(cache[req[h].doc].pages)
        /\ cache[req[h].doc].pages[req[h].page_num] = Dict(resp[h].body)
        /\ \E i \in 1..Len(cache[req[h].doc].pages) :
              /\ i # req[h].page_num
              /\ cache[req[h].doc].pages[i].extracted_fields # <<>>

\* C3: an update_page for page n of a document with no stored record creates
\* a record with total_pages = n, no key_fields, placeholders for the pages
\* 1..n-1 and the given page at n.
C3_CreateOnFirstUpdate ==
    [][\A h \in Reqs :
         ( /\ UpdateCompletes(h)
           /\ doc_data[h] = NewDocData(req[h].doc, page_data[h]) )
         => LET new == cache'[req[h].doc]
                n == req[h].page_num
            IN /\ IsJson(new)
               /\ new.total_pages = n
               /\ new.key_fields = <<>>
               /\ Len(new.pages) = n
               /\ \A i \in 1..(n - 1) :
                     /\ IsPlaceholderPage(new.pages[i])
                     /\ new.pages[i].page_number = i
               /\ new.pages[n] = Dict(page_data[h])]_vars

\* The first update_page of a document was for its page 2.
C3_Witness ==
    \E h \in Reqs :
        /\ ExtractDone(h)
        /\ req[h].page_num = 2
        /\ BuiltByUpdate(cache[req[h].doc])
        /\ cache[req[h].doc].total_pages = 2
        /\ IsPlaceholderPage(cache[req[h].doc].pages[1])
        /\ cache[req[h].doc].pages[2] = Dict(resp[h].body)

\* C4: in every stored record total_pages is the length of the pages array.
C4_TotalPagesIsLength ==
    \A d \in Docs :
        IsJson(cache[d]) => cache[d].total_pages = Len(cache[d].pages)

\* C5: in every stored record the page at index i (from 1) has page_number i.
C5_PageNumbersContiguous ==
    \A d \in Docs :
        IsJson(cache[d]) =>
            \A i \in 1..Len(cache[d].pages) : cache[d].pages[i].page_number = i

\* A record that update_page created, extended and wrote a later page of.
C5_Witness ==
    \E d \in Docs :
        /\ BuiltByUpdate(cache[d])
        /\ cache[d].total_pages < Len(cache[d].pages)
        /\ ~IsPlaceholderPage(cache[d].pages[Len(cache[d].pages)])

\* Every field of the sequence with a value that is empty once trimmed has
\* confidence 0.0.
EmptyValuesHaveNoConfidence(fields) ==
    \A i \in 1..Len(fields) :
        Strip(fields[i].value) = <<>> => fields[i].confidence = 0

\* C6: every field of a page that is stored, or returned by a single-page
\* extraction or by whole-document processing, has confidence 0.0 when its
\* value is empty once trimmed.
C6_EmptyValueZeroConfidence ==
    /\ \A d \in Docs :
          IsJson(cache[d]) =>
             \A i \in 1..Len(cache[d].pages) :
                EmptyValuesHaveNoConfidence(cache[d].pages[i].extracted_fields)
    /\ \A h \in Reqs :
          ExtractDone(h) => EmptyValuesHaveNoConfidence(resp[h].body.extracted_fields)
    /\ \A h \in Reqs :
          (pc[h] = "done" /\ req[h].op = "process_pdf" /\ resp[h].status = 200)
          => \A i \in 1..Len(resp[h].body.pages) :
                EmptyValuesHaveNoConfidence(resp[h].body.pages[i].extracted_fields)

\* The request of slot h is answered with the invalid-page error, without a
\* call of the external capability and without a change of the store.
RejectedAsInvalidPage(h) ==
    /\ pc'[h] = "done"
    /\ resp'[h].status # 200
    /\ resp'[h].detail = InvalidPageDetail
    /\ ext'[h] = "none"
    /\ cache' = cache

C8_DegradedPage ==
    [][\A h \in Reqs :
         LET d == req[h].doc
             n == req[h].page_num
         IN /\ ( /\ pc[h] = "recv" /\ req[h].op = "extract"
                 /\ pdf[d] > 0 /\ ~InvalidPage(n, pdf[d])
                 /\ PlaceholderOnly(cache[d])
                 /\ pc'[h] # "recv" /\ ext'[h] # "ok" )
               => (ext'[h] = "failed" /\ pc'[h] = "read")
            /\ ( /\ pc[h] = "read" /\ req[h].op = "extract"
                 /\ ext[h] = "failed"
                 /\ PlaceholderOnly(cache[d])
                 /\ pc'[h] # "read" )
               => pc'[h] = "open"
            /\ ( /\ UpdateCompletes(h)
                 /\ ext[h] = "failed"
                 /\ PlaceholderOnly(doc_data[h])
                 /\ n <= Len(doc_data[h].pages) )
               => /\ resp'[h].status = 200
                  /\ resp'[h].body.page_number = n
                  /\ resp'[h].body.extracted_fields = <<>>
                  /\ IsJson(cache'[d])
                  /\ Len(cache'[d].pages) = Len(doc_data[h].pages)
                  /\ cache'[d].pages[n] = Dict(resp'[h].body)
                  /\ \A i \in 1..Len(doc_data[h].pages) :
                        i # n => /\ cache'[d].pages[i] = doc_data[h].pages[i]
                                 /\ IsPlaceholderPage(cache'[d].pages[i])]_vars

\* The extraction of a page of a two-page placeholder document failed and the
\* page was returned and stored without fields.
C8_Witness ==
    \E h \in Reqs :
        /\ ExtractDone(h)
        /\ ext[h] = "failed"
        /\ resp[h].body.extracted_fields = <<>>
        /\ IsJson(cache[req[h].doc])
        /\ Len(cache[req[h].doc].pages) = 2
        /\ cache[req[h].doc].pages[req[h].page_num] = Dict(resp[h].body)
        /\ \A i \in 1..2 :
              i # req[h].page_num => IsPlaceholderPage(cache[req[h].doc].pages[i])

\* C9: when _save_results is called for a document that has a stored record,
\* the call fails and the record stays as it is.
C9_CreateNeverOverwrites ==
    [][\A h \in Reqs :
         (pc[h] = "save_open" /\ IsJson(cache[req[h].doc]))
         => /\ cache' = cache
            /\ pc'[h] = "done"
            /\ resp'[h].status # 200]_vars

\* C10: get_document and get_page answer 404 when the PDF or the cache file
\* of the document is missing, and change nothing.
C10_ReadOfAbsentIsNotFound ==
    [][\A h \in Reqs :
         ( /\ pc[h] = "recv" /\ req[h].op \in {"get_document", "get_page"}
           /\ \/ pdf[req[h].doc] = 0
              \/ cache[req[h].doc] = Absent )
         => /\ pc'[h] = "done"
            /\ resp'[h].status = 404
            /\ cache' = cache
            /\ pdf' = pdf]_vars

\* C11: validate_extraction applied to its own result returns that result
\* again, and every call returns as many fields as it was given, in the same
\* order, each with the field_name and the page_number it had.
C11_ValidateIdempotent ==
    /\ calls >= 1 =>
          /\ Len(validated_fields) = Len(extracted)
          /\ \A i \in 1..Len(extracted) :
                /\ validated_fields[i].field_name = extracted[i].field_name
                /\ validated_fields[i].page_number = extracted[i].page_number
    /\ calls >= 2 => validated_fields = extracted

\* The second call was given a list in which the first call had capped a
\* confidence and zeroed another.
C11_Witness ==
    /\ calls = 2
    /\ \E i, j \in 1..Len(validated_fields) :
          /\ Len(validated_fields[i].value) = 1
          /\ validated_fields[i].confidence = LowConfidence
          /\ validated_fields[j].value = <<>>
          /\ validated_fields[j].page_number = 2

\* C12: the list validate_extraction returns has the length of its argument,
\* and its i-th field has the trimmed value of the i-th field given and the
\* confidence 0.0 if that value is empty, min(confidence, 0.5) if it has
\* fewer than 2 characters, and the given confidence otherwise.
C12_ValidateRules ==
    calls = 1 =>
        /\ Len(validated_fields) = Len(extracted)
        /\ \A i \in 1..Len(extracted) :
              LET given == extracted[i]
                  out == validated_fields[i]
              IN /\ out.value = Strip(given.value)
                 /\ out.confidence =
                       IF Len(out.value) = 0 THEN 0
                       ELSE IF Len(out.value) < 2
                            THEN (IF given.confidence <= 5 THEN given.confidence ELSE 5)
                       ELSE given.confidence

\* One call trimmed a value to a single character and capped its confidence,
\* and zeroed the confidence of a blank value.
C12_Witness ==
    /\ calls = 1
    /\ \E i, j \in 1..Len(extracted) :
          /\ extracted[i].value = <<" ", "a", " ">>
          /\ extracted[i].confidence = 8
          /\ validated_fields[i].value = <<"a">>
          /\ validated_fields[i].confidence = 5
          /\ extracted[j].value = <<" ">>
          /\ extracted[j].confidence = 8
          /\ validated_fields[j].confidence = 0

\* The pages are numbered 1..Len(pages) in order.
NumberedInOrder(pages) ==
    \A i \in 1..Len(pages) : pages[i].page_number = i

\* C13: processing an N-page PDF as a whole adds one page per iteration, in
\* ascending order, with no extracted fields when the external call of the
\* iteration failed; the loop is left only after N pages, towards the save;
\* the record that is then written, and the answer, hold exactly the pages
\* 1..N in order.  The record written by an upload, which has no field list,
\* holds N placeholders.
C13_OnePagePerPdfPage ==
    [][\A h \in Reqs :
         LET d == req[h].doc
             k == Len(pages_data[h])
         IN /\ ( pc[h] = "loop" /\ pc'[h] = "loop" /\ pages_data'[h] # pages_data[h] )
               => /\ k < pdf[d]
                  /\ Len(pages_data'[h]) = k + 1
                  /\ SubSeq(pages_data'[h], 1, k) = pages_data[h]
                  /\ pages_data'[h][k + 1].page_number = k + 1
                  /\ ext'[h] = "failed" => pages_data'[h][k + 1].extracted_fields = <<>>
            /\ ( pc[h] = "loop" /\ pc'[h] # "loop" )
               => /\ pc'[h] = "save_open"
                  /\ k = pdf[d]
                  /\ pages_data'[h] = pages_data[h]
            /\ ( pc[h] = "save_write" /\ cache'[d] # cache[d] )
               => /\ IsJson(cache'[d])
                  /\ Len(cache'[d].pages) = pdf[d]
                  /\ cache'[d].total_pages = pdf[d]
                  /\ NumberedInOrder(cache'[d].pages)
                  /\ resp'[h].status = 200
                  /\ Len(resp'[h].body.pages) = pdf[d]
                  /\ \A i \in 1..pdf[d] : cache'[d].pages[i] = Dict(resp'[h].body.pages[i])
                  /\ req[h].op = "upload" => PlaceholderOnly(cache'[d])]_vars

\* A two-page PDF was processed as a whole: the external call failed on its
\* last page, and the record holds page 1 with its field and page 2 with none.
C13_Witness ==
    \E h \in Reqs :
        /\ pc[h] = "done" /\ req[h].op = "process_pdf" /\ resp[h].status = 200
        /\ ext[h] = "failed"
        /\ IsJson(cache[req[h].doc])
        /\ cache[req[h].doc].key_fields = req[h].key_fields
        /\ Len(cache[req[h].doc].pages) = 2
        /\ cache[req[h].doc].pages[1].extracted_fields # <<>>
        /\ cache[req[h].doc].pages[2].extracted_fields = <<>>
        /\ cache[req[h].doc].pages[2].text_content # None

\* The state of a document derived from its stored pages: 0 Uninitialized
\* (no record, or no page), 3 Fully-extracted (every page was extracted: it
\* has the text an extraction leaves), 2 Partially-extracted (some page has
\* extracted fields), 1 Placeholder-initialized (pages without fields).
DocumentState(file) ==
    IF ~IsJson(file) THEN 0
    ELSE IF file.pages = <<>> THEN 0
    ELSE IF \A i \in 1..Len(file.pages) : file.pages[i].text_content # None THEN 3
    ELSE IF \E i \in 1..Len(file.pages) : file.pages[i].extracted_fields # <<>> THEN 2
    ELSE 1

\* C14: the state of a document never moves backward: the record an
\* update_page writes is in a state at least that of the record it read, and
\* so is a record written in one step over another.
C14_StateNeverRegresses ==
    [][/\ \A h \in Reqs :
            UpdateCompletes(h) =>
               DocumentState(cache'[req[h].doc]) >= DocumentState(doc_data[h])
       /\ \A d \in Docs :
            (cache[d] # Empty /\ cache'[d] # Empty)
            => DocumentState(cache'[d]) >= DocumentState(cache[d])]_vars

\* Slot g reads the cache file for a get_document or get_page while slot h
\* is between reading the record and having written the update of it.
ReadsDuringUpdate(g, h) ==
    /\ g # h
    /\ pc[g] = "read" /\ req[g].op \in {"get_document", "get_page"}
    /\ pc'[g] = "done"
    /\ req[h].op = "extract" /\ req[h].doc = req[g].doc
    /\ pc[h] \in {"open", "write"}

\* C15: a get_document or get_page that reads the cache file while an
\* update_page of the same document is in progress finds a complete record,
\* the one before the update or the one after it, and does not fail on
\* parsing it.
C15_ReadSeesCompleteRecord ==
    [][\A g, h \in Reqs :
         ReadsDuringUpdate(g, h) =>
            LET file == cache[req[g].doc]
            IN /\ IsJson(file)
               /\ \/ file = doc_data[h]
                  \/ file = UpdatePage(doc_data[h], req[h].page_num, page_data[h])
               /\ resp'[g].detail # <<"JSONDecodeError">>
               /\ req[g].op = "get_document" => resp'[g] = Ok(file)]_vars

\* C16: when an upload is answered with success and N placeholder pages, the
\* store holds a record of the document with the same N placeholder pages.
C16_SuccessMeansStored ==
    [][\A h \in Reqs :
         ( /\ req[h].op = "upload"
           /\ pc[h] # "done" /\ pc'[h] = "done"
           /\ resp'[h].status = 200 )
         => LET d == req[h].doc
                pages == resp'[h].body.pages
            IN /\ IsJson(cache'[d])
               /\ PlaceholderOnly(cache'[d])
               /\ Len(cache'[d].pages) = Len(pages)
               /\ \A i \in 1..Len(pages) : cache'[d].pages[i] = Dict(pages[i])]_vars

=============================================================================
